---- MODULE Spec2Model ----
(***************************************************************************)
(* Route generation pipeline of routestory-backend                         *)
(* (supabase/functions/generate-route/index.ts): the Deno.serve handler,   *)
(* one action per await-delimited segment, with the routes table, the      *)
(* stories table and the external services (geocoding, directions, place   *)
(* search) as nondeterministic answers.                                    *)
(***************************************************************************)
EXTENDS Integers, Sequences, FiniteSets, TLC

(***************************************************************************)
(* Bounds of the model                                                     *)
(***************************************************************************)
\* longest decoded baseline path (number of coordinates)
MaxCoords == 3
\* longest encoded polyline handed to decodePolyline (characters)
MaxChars == 5

(***************************************************************************)
(* Program constants                                                       *)
(***************************************************************************)
\* const maxPOIsPerSearch = 10
maxPOIsPerSearch == 10
\* .slice(0, 8) // Max 8 POIs per route
MaxPOIsPerRoute == 8
\* Math.floor(coordinates.length / 5)
SearchPoints == 5
\* max_distance_meters: 200 // 200m tolerance
OnRouteTolerance == 200
\* generation_progress written by the handler
ProgressAccepted == 10
ProgressFailed == 0
ProgressBaseline == 40
ProgressDiscovered == 70
ProgressCompleted == 100
\* the requests; each gets its own routeId (crypto.randomUUID()), modelled
\* by the request's name
Req == {"r1", "r2"}

\* preferences.max_time_increase_percent is optional: NoBudget is "absent";
\* the budgets asked for are none and 0 percent
NoBudget == 0 - 1
Budgets == {NoBudget, 0}

Min(a, b) == IF a < b THEN a ELSE b
Max(a, b) == IF a > b THEN a ELSE b

(***************************************************************************)
(* Place search results (Google Places nearbysearch): the fields the code  *)
(* reads off a place. rating is in tenths (45 is 4.5), 0 when absent;      *)
(* type is "" when place.types is absent; has_geometry FALSE is a place    *)
(* without geometry, on which place.geometry.location throws.              *)
(* detour is what the directions service would add to the baseline         *)
(* duration with this place as a waypoint (seconds); distance is how far   *)
(* place.geometry.location lies from the baseline path (metres).           *)
(***************************************************************************)
PlaceIds == 1..16

Place(id) ==
  CASE id = 1 -> [place_id |-> 1, rating |-> 45, user_ratings_total |-> 1000,
                  type |-> "tourist_attraction", has_geometry |-> TRUE, detour |-> 300,
                  distance |-> 200]
    [] id = 2 -> [place_id |-> 2, rating |-> 40, user_ratings_total |-> 100,
                  type |-> "museum", has_geometry |-> TRUE, detour |-> 100,
                  distance |-> 300]
    [] id = 3 -> [place_id |-> 3, rating |-> 40, user_ratings_total |-> 100,
                  type |-> "museum", has_geometry |-> TRUE, detour |-> 60,
                  distance |-> 3000]
    [] id = 4 -> [place_id |-> 4, rating |-> 30, user_ratings_total |-> 10,
                  type |-> "", has_geometry |-> TRUE, detour |-> 30,
                  distance |-> 800]
    [] id >= 6 -> [place_id |-> id, rating |-> 20 + 2 * (id - 5),
                   user_ratings_total |-> 100, type |-> "park",
                   has_geometry |-> TRUE, detour |-> 120, distance |-> 400]
    [] OTHER  -> [place_id |-> id, rating |-> 0, user_ratings_total |-> 0,
                  type |-> "", has_geometry |-> FALSE, detour |-> 0,
                  distance |-> 0]

\* One answer of the place search for one sample point: fetch or
\* response.json() throws ("throw"), or a body arrives whose results are
\* the listed places (<<>>: no results, or no results field at all).
SampleResponses ==
  {[kind |-> "throw", results |-> <<>>]} \cup
  {[kind |-> "ok", results |-> s] : s \in {<<>>, <<2, 1>>, <<3, 2>>, <<4, 5, 1>>}}

(***************************************************************************)
(* calculatePOIScore, in exact arithmetic: the components are kept in      *)
(* sixtieths of a score point, so that rating / 5 * 25 and                 *)
(* log(reviews) / log(1000) * 20 are integers for ratings in tenths and    *)
(* review counts that are powers of ten. Math.round rounds halves up.      *)
(***************************************************************************)
\* 3 * Math.log(c) / Math.log(1000) for the review counts of the model
LogThirds(c) ==
  CASE c = 1 -> 0 [] c = 10 -> 1 [] c = 100 -> 2 [] c = 1000 -> 3
    [] c = 10000 -> 4 [] c = 100000 -> 5 [] OTHER -> 6

TypeScore(poiType) ==
  CASE poiType = "tourist_attraction" -> 20
    [] poiType = "museum" -> 18
    [] poiType = "historical_site" -> 16
    [] poiType = "landmark" -> 15
    [] poiType = "park" -> 12
    [] poiType = "restaurant" -> 10
    [] OTHER -> 8

\* faulty variant: the buckets are scored in the opposite order
DistanceScoreReversed(distanceFromRoute) ==
  IF distanceFromRoute <= 500 THEN 2
  ELSE IF distanceFromRoute <= 1000 THEN 5
  ELSE IF distanceFromRoute <= 2000 THEN 8
  ELSE 10

DistanceScore(distanceFromRoute) ==
  IF distanceFromRoute <= 500 THEN 10
  ELSE IF distanceFromRoute <= 1000 THEN 8
  ELSE IF distanceFromRoute <= 2000 THEN 5
  ELSE 2

\* faulty variant: the popularity component is not capped with Math.min(..., 1.0)
calculatePOIScoreUncapped(googleRating, reviewCount, poiType, distanceFromRoute) ==
  LET ratingScore == IF googleRating > 0 THEN 30 * googleRating ELSE 0
      popularityScore == IF reviewCount > 0
                         THEN LogThirds(reviewCount) * 400 ELSE 0
      finalScore == ratingScore + popularityScore + 60 * TypeScore(poiType)
                    + 60 * DistanceScore(distanceFromRoute) + 450 + 300
  IN (finalScore + 30) \div 60

calculatePOIScore(googleRating, reviewCount, poiType, distanceFromRoute) ==
  LET ratingScore == IF googleRating > 0 THEN 30 * googleRating ELSE 0
      popularityScore == IF reviewCount > 0
                         THEN Min(LogThirds(reviewCount), 3) * 400 ELSE 0
      typeScore == 60 * TypeScore(poiType)
      distanceScore == 60 * DistanceScore(distanceFromRoute)
      uniquenessScore == 450
      historicalScore == 300
      finalScore == ratingScore + popularityScore + typeScore + distanceScore
                    + uniquenessScore + historicalScore
  IN (finalScore + 30) \div 60

\* uniqueness_score INTEGER DEFAULT 5
DefaultUniqueness == 5

\* the database routine calculate_poi_score, in the same exact arithmetic
\* (sixtieths of a point); it returns ROUND(final_score * 100, 2), here in
\* hundredths of a point
calculate_poi_score(google_rating, review_count, poi_type, distance_from_route, uniqueness_score) ==
  LET rating_score == 30 * google_rating
      popularity_score == IF review_count > 0
                          THEN Min(LogThirds(review_count), 3) * 400 ELSE 0
      type_score == 60 * TypeScore(poi_type)
      distance_score == 60 * DistanceScore(distance_from_route)
      final_score == rating_score + popularity_score + type_score + distance_score
                     + 90 * uniqueness_score + 600
  IN (final_score * 100 + 30) \div 60

\* the arguments calculatePOIScore is called with in the model: ratings in
\* tenths, review counts that are 0 or powers of ten, the six categories
\* with a weight of their own and one without, distances around the
\* bucket limits
ScoreRatings == {0, 1, 25, 37, 45, 50}
ScoreReviews == {0, 1, 10, 100, 1000, 10000, 1000000}
ScoreTypes == {"tourist_attraction", "museum", "historical_site", "landmark",
               "park", "restaurant", "unknown"}
ScoreDistances == {0, 500, 501, 1000, 1001, 2000, 2001, 3000}

(***************************************************************************)
(* discoverPOIsNearRoute: the helpers of the per-sample loop               *)
(***************************************************************************)
\* Math.max(1, Math.floor(coordinates.length / 5))
searchInterval(n) == Max(1, n \div SearchPoints)

\* the poi object built from a place found at coordinate index i
MakePOI(place, i) ==
  [google_place_id |-> place.place_id,
   poi_type |-> IF place.type = "" THEN "tourist_attraction" ELSE place.type,
   google_rating |-> place.rating,
   review_count |-> place.user_ratings_total,
   popularity_score |-> calculatePOIScore(place.rating, place.user_ratings_total,
                          IF place.type = "" THEN "unknown" ELSE place.type, 0),
   route_coordinate_index |-> i]

HasPlace(list, id) == \E k \in 1..Len(list) : list[k].google_place_id = id

\* faulty variant: every candidate is pushed, no lookup of an existing one
PushAlways(list, poi) == Append(list, poi)

\* const existing = discoveredPOIs.find(...); if (!existing) push
PushIfNew(list, poi) ==
  IF HasPlace(list, poi.google_place_id) THEN list ELSE Append(list, poi)

\* data.results.slice(0, maxPOIsPerSearch)
Slice(s, n) == SubSeq(s, 1, Min(Len(s), n))

\* for (const place of results): a place without geometry throws, which
\* ends the loop over this sample's results (the catch is outside it)
RECURSIVE ProcessResults(_, _, _)
ProcessResults(list, results, i) ==
  IF results = <<>> THEN list
  ELSE LET place == Place(Head(results)) IN
       IF ~place.has_geometry THEN list
       ELSE ProcessResults(PushIfNew(list, MakePOI(place, i)), Tail(results), i)

\* whether the sample's try block ends in the catch
SampleThrows(resp) ==
  \/ resp.kind = "throw"
  \/ \E k \in 1..Len(Slice(resp.results, maxPOIsPerSearch)) :
        ~Place(resp.results[k]).has_geometry

\* the whole try block of one sample
ProcessSample(list, resp, i) ==
  IF resp.kind = "throw" THEN list
  ELSE ProcessResults(list, Slice(resp.results, maxPOIsPerSearch), i)

\* faulty variant: an exception in a sample leaves the loop
NextSampleAbort(i, n, threw) == IF threw THEN n ELSE i + searchInterval(n)

\* i += searchInterval, whether the sample threw or not (try/catch inside
\* the loop body)
NextSample(i, n, threw) == i + searchInterval(n)

\* Array.prototype.sort with (a, b) => b.popularity_score - a.popularity_score
\* is stable: insertion after every element whose score is not lower
RECURSIVE InsertSorted(_, _)
InsertSorted(sorted, p) ==
  IF sorted = <<>> THEN <<p>>
  ELSE IF Head(sorted).popularity_score >= p.popularity_score
       THEN <<Head(sorted)>> \o InsertSorted(Tail(sorted), p)
       ELSE <<p>> \o sorted

RECURSIVE SortByScore(_)
SortByScore(list) ==
  IF list = <<>> THEN <<>>
  ELSE InsertSorted(SortByScore(SubSeq(list, 1, Len(list) - 1)), list[Len(list)])

\* faulty variant: the sorted list is returned whole
TopPOIsUncut(list) == SortByScore(list)

\* return discoveredPOIs.sort(...).slice(0, 8)
TopPOIs(list) == Slice(SortByScore(list), MaxPOIsPerRoute)

(***************************************************************************)
(* The request, the external answers and what the handler makes of them    *)
(***************************************************************************)
\* requestData.start_location / end_location: absent ("missing"), valid
\* coordinates, coordinates out of range, an address, or out-of-range
\* coordinates with an address, or an object with neither ("empty")
LocKinds == {"missing", "coords", "badcoords", "address", "badcoords_address", "empty"}

Requests == [start_location : LocKinds, end_location : LocKinds, budget : Budgets]

NoRequest == [start_location |-> "missing", end_location |-> "missing", budget |-> NoBudget]

\* answers of the geocoding service; "none" when it is not called
GeocoderAnswers == {"found", "zero_results", "throw"}

NeedsGeocoder(loc) == loc \in {"address", "badcoords_address"}

\* getCoordinates: whether it goes as far as the fetch of the geocode URL
CallsGeocoder(loc, apiKey) == NeedsGeocoder(loc) /\ apiKey

\* getCoordinates: "coords" for a coordinate pair, "null" for null
getCoordinates(loc, apiKey, answer) ==
  IF loc = "coords" THEN "coords"
  ELSE IF NeedsGeocoder(loc)
       THEN IF ~apiKey THEN "null"
            ELSE IF answer = "found" THEN "coords" ELSE "null"
       ELSE "null"

\* answers of the directions service for the baseline request: fetch or
\* json() throws or the route lacks a field ("throw"), an upstream error
\* status, status OK without routes, or a route with its duration and the
\* number of points its overview polyline decodes to
BaselineTimes == {600, 1080}

DirectionsResponses ==
  {[kind |-> "throw", status |-> "", routes |-> 0, duration |-> 0, points |-> 0],
   [kind |-> "ok", status |-> "REQUEST_DENIED", routes |-> 0, duration |-> 0, points |-> 0],
   [kind |-> "ok", status |-> "OK", routes |-> 0, duration |-> 0, points |-> 0]} \cup
  {[kind |-> "ok", status |-> "OK", routes |-> 1, duration |-> t, points |-> n] :
      t \in BaselineTimes, n \in 0..MaxCoords}

NoDirections == [kind |-> "none", status |-> "", routes |-> 0, duration |-> 0, points |-> 0]

RouteFailure(error) ==
  [success |-> FALSE, error |-> error, n |-> 0, estimated_time_seconds |-> 0,
   baseline_time_seconds |-> 0, time_increase_percent |-> 0, waypoints |-> <<>>]

NoRouteData == RouteFailure("")

\* faulty variant: the returned duration is that of a detour through a waypoint
\* whose extra time was never held against the budget
calculateScenicRouteDetour(apiKey, resp) ==
  IF ~apiKey \/ resp.kind # "ok" \/ resp.status # "OK" \/ resp.routes = 0
  THEN RouteFailure("No baseline route found")
  ELSE [success |-> TRUE, error |-> "", n |-> resp.points,
        estimated_time_seconds |-> resp.duration + resp.duration \div 2,
        baseline_time_seconds |-> resp.duration,
        time_increase_percent |-> 50, waypoints |-> <<>>]

\* calculateScenicRoute: the baseline route is returned as the result
calculateScenicRoute(apiKey, resp) ==
  IF ~apiKey THEN RouteFailure("Google Maps API key not configured")
  ELSE IF resp.kind # "ok" THEN RouteFailure("Route calculation failed")
  ELSE IF resp.status # "OK" \/ resp.routes = 0
       THEN RouteFailure("No baseline route found")
  ELSE [success |-> TRUE, error |-> "", n |-> resp.points,
        estimated_time_seconds |-> resp.duration,
        baseline_time_seconds |-> resp.duration,
        time_increase_percent |-> 0, waypoints |-> <<>>]

\* stories.priority INTEGER ... CHECK (priority >= 1 AND priority <= 10)
PriorityCheck(priority) == priority >= 1 /\ priority <= 10

\* faulty variant: the tens of the score, without the two clamps
StoryPriorityUnclamped(score) == score \div 10

\* priority: Math.min(10, Math.max(1, Math.floor(poi.popularity_score / 10)))
StoryPriority(score) == Min(10, Max(1, score \div 10))

MakeStory(poi) ==
  [place_id |-> poi.google_place_id, category |-> poi.poi_type,
   priority |-> StoryPriority(poi.popularity_score),
   route_coordinate_index |-> poi.route_coordinate_index]

\* the handler's answer; http 0 while it has not answered
Response(http, code, message) ==
  [http |-> http, code |-> code, message |-> message, reason |-> "", status |-> "",
   estimated_time_seconds |-> 0, baseline_time_seconds |-> 0,
   time_increase_percent |-> 0, waypoints |-> <<>>, stories |-> <<>>,
   total_stories |-> 0]

NoResponse == Response(0, "", "")

\* a row of the routes table; exists FALSE before the insert
NoRoute == [exists |-> FALSE, status |-> "", progress |-> 0]

(***************************************************************************)
(* decodePolyline. The encoded string is the sequence of its character     *)
(* codes; a coordinate is <<lat, lng>> in units of 1e-5 degrees (the code  *)
(* divides by 1e5 as it pushes). charCodeAt past the end of the string is  *)
(* NaN: NaN - 63 is NaN, (NaN & 0x1f) is 0 and NaN >= 0x20 is false.       *)
(***************************************************************************)
\* index is inside the string (charCodeAt(index) is a number)
HasChar(encoded, index) == index < Len(encoded)

\* (b & 0x1f) for b = encoded.charCodeAt(index) - 63
LowBits(encoded, index) ==
  IF HasChar(encoded, index) THEN (encoded[index + 1] - 63) % 32 ELSE 0

\* b >= 0x20
Continues(encoded, index) ==
  HasChar(encoded, index) /\ encoded[index + 1] - 63 >= 32

\* the do ... while (b >= 0x20) loop: result |= (b & 0x1f) << shift. The
\* bits or-ed in lie above those of result, so the or is a sum; with at most
\* six characters in a delta the value stays below 2^30 (int32)
RECURSIVE ReadChunks(_, _, _, _)
ReadChunks(encoded, index, shift, result) ==
  LET r == result + LowBits(encoded, index) * 2 ^ shift IN
  IF Continues(encoded, index)
  THEN ReadChunks(encoded, index + 1, shift + 5, r)
  ELSE [result |-> r, index |-> index + 1]

\* faulty variant: the sign bit is dropped
ZigZagUnsigned(result) == result \div 2

\* (result & 1) !== 0 ? ~(result >> 1) : (result >> 1)
ZigZag(result) ==
  IF result % 2 # 0 THEN 0 - (result \div 2) - 1 ELSE result \div 2

\* while (index < encoded.length) { ... coordinates.push([lat, lng]) }
RECURSIVE DecodeLoop(_, _, _, _, _)
DecodeLoop(encoded, index, lat, lng, coordinates) ==
  IF index >= Len(encoded) THEN coordinates
  ELSE LET a == ReadChunks(encoded, index, 0, 0)
           lat2 == lat + ZigZag(a.result)
           b == ReadChunks(encoded, a.index, 0, 0)
           lng2 == lng + ZigZag(b.result)
       IN DecodeLoop(encoded, b.index, lat2, lng2,
                     Append(coordinates, <<lat2, lng2>>))

\* what a call of decodePolyline ends in: the function has no throw and no
\* statement that can raise, so it always returns
decodePolyline(encoded) ==
  [kind |-> "coordinates", coordinates |-> DecodeLoop(encoded, 0, 0, 0, <<>>)]

\* the functions of the program that take or return an encoded polyline
PolylineFunctions == {"decodePolyline"}

\* the characters of the model: '?' (0), '@' (1), 'B' (3), '_' (32),
\* '`' (33) and '~' (63)
PolylineChars == {63, 64, 66, 95, 96, 126}

EncodedStrings == UNION {[1..n -> PolylineChars] : n \in 0..MaxChars}

NoPolyline == [state |-> "idle", encoded |-> <<>>, result |-> decodePolyline(<<>>)]

NoScoring ==
  [state |-> "idle", googleRating |-> 0, reviewCount |-> 0, poiType |-> "",
   distanceFromRoute |-> 0, score |-> 0]

(***************************************************************************)
(* route-status, POST validate-location. The request is the presence of    *)
(* route_id and the kind of current_location; metres is how far the        *)
(* location lies from the stored route_path, which only the store can      *)
(* compute.                                                                *)
(***************************************************************************)
\* is_location_on_route: ST_DWithin(check_location, route_path, max_distance_meters)
is_location_on_route(metres, max_distance_meters) == metres <= max_distance_meters

\* distances of the location from the route, in metres
RouteDistances == {0, 50, 150, 200, 201, 350, 5000}

ValidationRequests ==
  [route_id : BOOLEAN, current_location : {"missing", "valid", "invalid"},
   metres : RouteDistances]

\* answer of a store call: data, an error object, or an exception
StoreAnswers == {"data", "error", "throw"}

ValidationResponse(http, code, on_route, distance) ==
  [http |-> http, code |-> code, on_route |-> on_route,
   distance_from_route_meters |-> distance]

NoValidation ==
  [state |-> "idle", request |-> [route_id |-> FALSE, current_location |-> "missing",
                                  metres |-> 0],
   validationResult |-> FALSE,
   response |-> ValidationResponse(0, "", FALSE, 0)]

(***************************************************************************)
(* The orchestration endpoint, POST /api/v1/routes/generate                *)
(* (handleRouteGeneration): it validates the body, forwards it to the      *)
(* generate-route function and answers from what that function returned.   *)
(***************************************************************************)
\* validateRouteRequest: both locations present, each with coordinates or an
\* address, and coordinates that are given are in range
validateRouteRequest(body) ==
  /\ body.start_location \in {"coords", "address"}
  /\ body.end_location \in {"coords", "address"}

\* what the fetch of generate-route ends in: an exception, or a response
\* with its ok flag and the route_id and status of its body
DownstreamAnswers ==
  {[kind |-> "throw", ok |-> FALSE, route_id |-> "", status |-> ""]} \cup
  {[kind |-> "response", ok |-> FALSE, route_id |-> "", status |-> ""]} \cup
  {[kind |-> "response", ok |-> TRUE, route_id |-> id, status |-> st] :
      id \in Req, st \in {"completed", "processing"}}

NoDownstream == [kind |-> "none", ok |-> FALSE, route_id |-> "", status |-> ""]

\* the names that handleRouteGeneration can refer to: its parameters and
\* its locals (url is a local of the Deno.serve callback, not of this
\* function, and the module declares no url)
NamesInHandleRouteGeneration ==
  {"req", "supabase", "requestData", "validation", "cachedRoute",
   "generateResponse", "errorText", "generationResult", "response"}

APIResponse(http, code, route_id, status, message) ==
  [http |-> http, code |-> code, route_id |-> route_id, status |-> status,
   message |-> message]

NoOrchestration ==
  [state |-> "idle", request |-> NoRequest, parsed |-> FALSE,
   downstream |-> NoDownstream, response |-> APIResponse(0, "", "", "", "")]

(***************************************************************************)
(* State                                                                   *)
(***************************************************************************)
VARIABLES
  mapsKey,      \* Deno.env GOOGLE_MAPS_API_KEY is set
  pc,           \* where each request's handler stands
  requestData,  \* the parsed body
  startCoords,  \* getCoordinates(start_location)
  endCoords,    \* getCoordinates(end_location)
  routes,       \* the routes table, one row per routeId
  writes,       \* every write the handler sent for its row, in order
  storyRows,    \* the stories table
  baselineResp, \* the directions service's answer
  routeData,    \* calculateScenicRoute's result
  di,           \* discoverPOIsNearRoute: i
  discovered,   \* discoverPOIsNearRoute: discoveredPOIs
  searches,     \* the place searches issued, with their answers
  poisData,     \* discoverPOIsNearRoute's result
  si,           \* generateStoriesForPOIs: i
  stories,      \* generateStoriesForPOIs: stories
  response,     \* the handler's answer
  geocoderCalls,\* whether the handler has sent a request to the geocoding service
  env,          \* the answers the store and the external services can give
  polyline,     \* decodePolyline: its argument and its result
  scoring,      \* calculatePOIScore: its arguments and its result
  validation,   \* route-status validate-location: request, store answers, response
  orchestration \* POST /api/v1/routes/generate: request, downstream answer, response

vars == <<mapsKey, pc, requestData, startCoords, endCoords, routes, writes,
          storyRows, baselineResp, routeData, di, discovered, searches,
          poisData, si, stories, response, geocoderCalls, env,
          polyline, scoring, validation, orchestration>>

\* the state of the generate-route handlers
handlerVars == <<mapsKey, pc, requestData, startCoords, endCoords, routes, writes,
                 storyRows, baselineResp, routeData, di, discovered, searches,
                 poisData, si, stories, response, geocoderCalls, env>>

\* the functions and the endpoint checked on their own
unitVars == <<polyline, scoring, validation, orchestration>>

reqVars == <<requestData, startCoords, endCoords>>
storeVars == <<routes, writes, storyRows>>
routeVars == <<baselineResp, routeData>>
discVars == <<di, discovered, searches, poisData>>
storyVars == <<si, stories>>

Terminal == {"completed", "failed"}

\* the handlers that run: the first request alone
Started == {"r1"}

\* every answer of the model: what the handler can be sent and what the
\* store and the external services can answer
FullEnv ==
  [requests |-> Requests, geocoder |-> GeocoderAnswers, store |-> BOOLEAN,
   directions |-> DirectionsResponses, places |-> SampleResponses,
   storyOutcomes |-> {"ok", "poi_error", "story_error"}]

\* the state after deployment: the handlers in started have a request to
\* serve, nothing is stored yet
InitWith(e, started, keys) ==
  /\ env = e
  /\ mapsKey \in keys
  /\ geocoderCalls = [r \in Req |-> FALSE]
  /\ pc = [r \in Req |-> IF r \in started THEN "start" ELSE "idle"]
  /\ requestData = [r \in Req |-> NoRequest]
  /\ startCoords = [r \in Req |-> "null"]
  /\ endCoords = [r \in Req |-> "null"]
  /\ routes = [r \in Req |-> NoRoute]
  /\ writes = [r \in Req |-> <<>>]
  /\ storyRows = {}
  /\ baselineResp = [r \in Req |-> NoDirections]
  /\ routeData = [r \in Req |-> NoRouteData]
  /\ di = [r \in Req |-> 0]
  /\ discovered = [r \in Req |-> <<>>]
  /\ searches = [r \in Req |-> <<>>]
  /\ poisData = [r \in Req |-> <<>>]
  /\ si = [r \in Req |-> 0]
  /\ stories = [r \in Req |-> <<>>]
  /\ response = [r \in Req |-> NoResponse]

\* nothing is being decoded, scored or validated
UnitsIdle ==
  /\ polyline = NoPolyline
  /\ scoring = NoScoring
  /\ validation = NoValidation
  /\ orchestration = NoOrchestration

Init == InitWith(FullEnv, Started, BOOLEAN) /\ UnitsIdle

\* return new Response(...)
Return(r, resp) ==
  /\ response' = [response EXCEPT ![r] = resp]
  /\ pc' = [pc EXCEPT ![r] = "done"]

Goto(r, label) ==
  /\ pc' = [pc EXCEPT ![r] = label]
  /\ UNCHANGED response

\* supabase.from('routes').insert({id: routeId, status, generation_progress})
StoreInsert(r, status, progress, ok) ==
  /\ routes' = IF ok
               THEN [routes EXCEPT ![r] = [exists |-> TRUE, status |-> status,
                                           progress |-> progress]]
               ELSE routes
  /\ writes' = [writes EXCEPT ![r] = Append(@, [status |-> status,
                                   progress |-> progress, applied |-> ok])]

\* faulty variant: the update has no .eq('id', routeId) and changes every row
StoreUpdateAll(r, status, progress, ok) ==
  /\ routes' = IF ok
               THEN [q \in Req |->
                       IF routes[q].exists
                       THEN [exists |-> TRUE,
                             status |-> IF status = "-" THEN routes[q].status ELSE status,
                             progress |-> progress]
                       ELSE routes[q]]
               ELSE routes
  /\ writes' = [writes EXCEPT ![r] = Append(@, [status |-> status,
                                   progress |-> progress, applied |-> ok])]

\* supabase.from('routes').update({...}).eq('id', routeId); status "-" when
\* the update does not set the status
StoreUpdate(r, status, progress, ok) ==
  /\ routes' = IF ok /\ routes[r].exists
               THEN [routes EXCEPT ![r] =
                       [exists |-> TRUE,
                        status |-> IF status = "-" THEN routes[r].status ELSE status,
                        progress |-> progress]]
               ELSE routes
  /\ writes' = [writes EXCEPT ![r] = Append(@, [status |-> status,
                                   progress |-> progress, applied |-> ok])]

(***************************************************************************)
(* Deno.serve handler                                                      *)
(***************************************************************************)
\* method check, req.json(), required fields
Receive(r) ==
  /\ pc[r] = "start"
  /\ \E method \in {"POST", "GET"}, parses \in BOOLEAN, body \in env.requests :
       IF method # "POST"
       THEN /\ Return(r, Response(405, "METHOD_NOT_ALLOWED", ""))
            /\ UNCHANGED requestData
       ELSE IF ~parses
       THEN /\ Return(r, Response(500, "INTERNAL_ERROR", ""))
            /\ UNCHANGED requestData
       ELSE IF body.start_location = "missing" \/ body.end_location = "missing"
       THEN /\ Return(r, Response(400, "MISSING_REQUIRED_FIELDS", ""))
            /\ requestData' = [requestData EXCEPT ![r] = body]
       ELSE /\ Goto(r, "geocode_start")
            /\ requestData' = [requestData EXCEPT ![r] = body]
  /\ UNCHANGED <<unitVars, env, geocoderCalls, mapsKey, startCoords, endCoords, storeVars, routeVars,
                 discVars, storyVars>>

\* const startCoords = await getCoordinates(requestData.start_location)
GeocodeStart(r) ==
  /\ pc[r] = "geocode_start"
  /\ \E answer \in env.geocoder :
       startCoords' = [startCoords EXCEPT ![r] =
          getCoordinates(requestData[r].start_location, mapsKey, answer)]
  /\ geocoderCalls' = [geocoderCalls EXCEPT ![r] =
       @ \/ CallsGeocoder(requestData[r].start_location, mapsKey)]
  /\ Goto(r, "geocode_end")
  /\ UNCHANGED <<unitVars, env, mapsKey, requestData, endCoords, storeVars, routeVars,
                 discVars, storyVars>>

\* const endCoords = await getCoordinates(requestData.end_location);
\* if (!startCoords || !endCoords) return GEOCODING_FAILED
GeocodeEnd(r) ==
  /\ pc[r] = "geocode_end"
  /\ \E answer \in env.geocoder :
       LET coords == getCoordinates(requestData[r].end_location, mapsKey, answer) IN
       /\ endCoords' = [endCoords EXCEPT ![r] = coords]
       /\ IF startCoords[r] = "null" \/ coords = "null"
          THEN Return(r, Response(400, "GEOCODING_FAILED", ""))
          ELSE Goto(r, "insert")
  /\ geocoderCalls' = [geocoderCalls EXCEPT ![r] =
       @ \/ CallsGeocoder(requestData[r].end_location, mapsKey)]
  /\ UNCHANGED <<unitVars, env, mapsKey, requestData, startCoords, storeVars, routeVars,
                 discVars, storyVars>>

\* insert of the route row with status processing, progress 10; the
\* locations of the request are not read after it
InsertRoute(r) ==
  /\ pc[r] = "insert"
  /\ \E ok \in env.store :
       /\ StoreInsert(r, "processing", ProgressAccepted, ok)
       /\ IF ok THEN Goto(r, "baseline")
          ELSE Return(r, Response(500, "DATABASE_ERROR", ""))
  /\ requestData' = [requestData EXCEPT ![r].start_location = "coords",
                                        ![r].end_location = "coords"]
  /\ UNCHANGED <<unitVars, env, geocoderCalls, mapsKey, startCoords, endCoords, storyRows, routeVars,
                 discVars, storyVars>>

\* const routeData = await calculateScenicRoute(...)
Baseline(r) ==
  /\ pc[r] = "baseline"
  /\ \E resp \in (IF mapsKey THEN env.directions ELSE {NoDirections}) :
       /\ baselineResp' = [baselineResp EXCEPT ![r] = resp]
       /\ routeData' = [routeData EXCEPT ![r] = calculateScenicRoute(mapsKey, resp)]
       /\ Goto(r, IF calculateScenicRoute(mapsKey, resp).success
                  THEN "update40" ELSE "update_failed")
  /\ UNCHANGED <<unitVars, env, geocoderCalls, mapsKey, reqVars, storeVars, discVars, storyVars>>

\* faulty variant: the failure branch does not return
UpdateFailedFallsThrough(r) ==
  /\ pc[r] = "update_failed"
  /\ \E ok \in env.store : StoreUpdate(r, "failed", ProgressFailed, ok)
  /\ Goto(r, "update40")
  /\ UNCHANGED <<unitVars, env, geocoderCalls, mapsKey, reqVars, storyRows, routeVars, discVars, storyVars>>

\* if (!routeData.success): update to failed, progress 0 (its result is not
\* looked at), return ROUTE_GENERATION_FAILED
UpdateFailed(r) ==
  /\ pc[r] = "update_failed"
  /\ \E ok \in env.store : StoreUpdate(r, "failed", ProgressFailed, ok)
  /\ Return(r, [Response(500, "ROUTE_GENERATION_FAILED", routeData[r].error)
                  EXCEPT !.reason = "No viable route found with specified parameters"])
  /\ UNCHANGED <<unitVars, env, geocoderCalls, mapsKey, reqVars, storyRows, routeVars, discVars, storyVars>>

\* faulty variant: the checkpoint of the next stage is written
Update40Early(r) ==
  /\ pc[r] = "update40"
  /\ \E ok \in env.store : StoreUpdate(r, "-", ProgressDiscovered, ok)
  /\ Goto(r, "discover")
  /\ UNCHANGED <<unitVars, env, geocoderCalls, mapsKey, reqVars, storyRows, routeVars, discVars, storyVars>>

\* update({ generation_progress: 40 }); its result is not looked at
Update40(r) ==
  /\ pc[r] = "update40"
  /\ \E ok \in env.store : StoreUpdate(r, "-", ProgressBaseline, ok)
  /\ Goto(r, "discover")
  /\ UNCHANGED <<unitVars, env, geocoderCalls, mapsKey, reqVars, storyRows, routeVars, discVars, storyVars>>

\* discoverPOIsNearRoute: one pass of the loop over the sample points
DiscoverSample(r) ==
  /\ pc[r] = "discover"
  /\ di[r] < routeData[r].n
  /\ \E resp \in env.places :
       /\ discovered' = [discovered EXCEPT ![r] = ProcessSample(@, resp, di[r])]
       /\ searches' = [searches EXCEPT ![r] =
                         Append(@, [index |-> di[r], resp |-> resp])]
       /\ di' = [di EXCEPT ![r] = NextSample(@, routeData[r].n, SampleThrows(resp))]
  /\ UNCHANGED <<unitVars, env, geocoderCalls, mapsKey, pc, response, reqVars, storeVars, routeVars,
                 poisData, storyVars>>

\* discoverPOIsNearRoute: the loop is over, sort and cut
DiscoverReturn(r) ==
  /\ pc[r] = "discover"
  /\ di[r] >= routeData[r].n
  /\ poisData' = [poisData EXCEPT ![r] = TopPOIs(discovered[r])]
  /\ Goto(r, "update70")
  /\ UNCHANGED <<unitVars, env, geocoderCalls, mapsKey, reqVars, storeVars, routeVars, di, discovered,
                 searches, storyVars>>

\* update({ generation_progress: 70 }); its result is not looked at
Update70(r) ==
  /\ pc[r] = "update70"
  /\ \E ok \in env.store : StoreUpdate(r, "-", ProgressDiscovered, ok)
  /\ Goto(r, "stories")
  /\ UNCHANGED <<unitVars, env, geocoderCalls, mapsKey, reqVars, storyRows, routeVars, discVars, storyVars>>

\* generateStoriesForPOIs: one pass of the loop over poisData; the pois
\* upsert fails, the stories insert fails, or both go through
StoryStep(r) ==
  /\ pc[r] = "stories"
  /\ si[r] < Len(poisData[r])
  /\ \E out \in env.storyOutcomes :
       LET story == MakeStory(poisData[r][si[r] + 1]) IN
       /\ stories' = [stories EXCEPT ![r] = IF out = "ok" THEN Append(@, story) ELSE @]
       /\ storyRows' = IF out = "ok"
                       THEN storyRows \cup {[route_id |-> r, place_id |-> story.place_id,
                                             priority |-> story.priority]}
                       ELSE storyRows
  /\ si' = [si EXCEPT ![r] = @ + 1]
  /\ UNCHANGED <<unitVars, env, geocoderCalls, mapsKey, pc, response, reqVars, routes, writes, routeVars, discVars>>

\* generateStoriesForPOIs returns (at once when poisData is empty)
StoriesReturn(r) ==
  /\ pc[r] = "stories"
  /\ si[r] >= Len(poisData[r])
  /\ Goto(r, "final")
  /\ UNCHANGED <<unitVars, env, geocoderCalls, mapsKey, reqVars, storeVars, routeVars, discVars, storyVars>>

\* the 200 answer built from routeData and stories
Completed(r) ==
  [http |-> 200, code |-> "OK", message |-> "", reason |-> "", status |-> "completed",
   estimated_time_seconds |-> routeData[r].estimated_time_seconds,
   baseline_time_seconds |-> routeData[r].baseline_time_seconds,
   time_increase_percent |-> routeData[r].time_increase_percent,
   waypoints |-> routeData[r].waypoints,
   stories |-> stories[r], total_stories |-> Len(stories[r])]

\* faulty variant: a route with fewer than three stops is failed
FinalUpdateMinStops(r) ==
  /\ pc[r] = "final"
  /\ \E ok \in env.store :
       IF Len(stories[r]) < 3
       THEN /\ StoreUpdate(r, "failed", routes[r].progress, ok)
            /\ Return(r, Response(500, "ROUTE_GENERATION_FAILED", "Too few stops"))
       ELSE /\ StoreUpdate(r, "completed", ProgressCompleted, ok)
            /\ Return(r, Completed(r))
  /\ UNCHANGED <<unitVars, env, geocoderCalls, mapsKey, reqVars, storyRows, routeVars, discVars, storyVars>>

\* the final update (an error is logged only) and the 200 answer
FinalUpdate(r) ==
  /\ pc[r] = "final"
  /\ \E ok \in env.store : StoreUpdate(r, "completed", ProgressCompleted, ok)
  /\ Return(r, Completed(r))
  /\ UNCHANGED <<unitVars, env, geocoderCalls, mapsKey, reqVars, storyRows, routeVars, discVars, storyVars>>

(***************************************************************************)
(* route-status, GET /{route_id}: what getRouteStatus answers from the     *)
(* route row and the story rows of the route                               *)
(***************************************************************************)
\* faulty variant: route_calculated is reported from the first checkpoint on
getRouteStatusFromAccepted(r) ==
  [http |-> IF routes[r].exists THEN 200 ELSE 404,
   status |-> routes[r].status,
   generation_progress |-> routes[r].progress,
   route_calculated |-> routes[r].progress >= ProgressAccepted,
   pois_discovered |-> routes[r].progress >= ProgressDiscovered,
   stories_generated |-> Cardinality({x \in storyRows : x.route_id = r})]

\* ROUTE_NOT_FOUND (404) without a row, else the row's status and progress,
\* partial_results from the progress, and the number of story rows
getRouteStatus(r) ==
  [http |-> IF routes[r].exists THEN 200 ELSE 404,
   status |-> routes[r].status,
   generation_progress |-> routes[r].progress,
   route_calculated |-> routes[r].progress >= ProgressBaseline,
   pois_discovered |-> routes[r].progress >= ProgressDiscovered,
   stories_generated |-> Cardinality({x \in storyRows : x.route_id = r})]

Next ==
  \E r \in Req :
    \/ Receive(r)
    \/ GeocodeStart(r)
    \/ GeocodeEnd(r)
    \/ InsertRoute(r)
    \/ Baseline(r)
    \/ UpdateFailed(r)
    \/ Update40(r)
    \/ DiscoverSample(r)
    \/ DiscoverReturn(r)
    \/ Update70(r)
    \/ StoryStep(r)
    \/ StoriesReturn(r)
    \/ FinalUpdate(r)

Spec == Init /\ [][Next]_vars

(***************************************************************************)
(* Two requests served at once: Deno.serve starts a handler per request    *)
(* and the handlers interleave at their awaits.                            *)
(***************************************************************************)
ConcurrentEnv ==
  [requests |-> {[start_location |-> "coords", end_location |-> "coords",
                  budget |-> NoBudget]},
   geocoder |-> {"found"}, store |-> BOOLEAN,
   directions |-> {d \in DirectionsResponses :
                     d.status = "REQUEST_DENIED" \/ (d.points = 1 /\ d.duration = 600)},
   places |-> {[kind |-> "ok", results |-> <<2, 1>>],
               [kind |-> "ok", results |-> <<4>>]},
   storyOutcomes |-> {"ok", "story_error"}]

InitConcurrent == InitWith(ConcurrentEnv, Req, {TRUE}) /\ UnitsIdle

SpecConcurrent == InitConcurrent /\ [][Next]_vars

(***************************************************************************)
(* A long road: the overview polyline decodes to five coordinates or more  *)
(***************************************************************************)
LongPaths == {5, 6, 9, 10, 11}

LongPathEnv ==
  [requests |-> {[start_location |-> "coords", end_location |-> "coords",
                  budget |-> NoBudget]},
   geocoder |-> {"found"}, store |-> {TRUE},
   directions |->
     {[kind |-> "ok", status |-> "REQUEST_DENIED", routes |-> 0, duration |-> 0,
       points |-> 0]} \cup
     {[kind |-> "ok", status |-> "OK", routes |-> 1, duration |-> 600, points |-> n] :
        n \in LongPaths},
   places |-> {[kind |-> "ok", results |-> <<>>], [kind |-> "ok", results |-> <<2>>]},
   storyOutcomes |-> {"ok"}]

InitLongPath == InitWith(LongPathEnv, Started, {TRUE}) /\ UnitsIdle

SpecLongPath == InitLongPath /\ [][Next]_vars

(***************************************************************************)
(* decodePolyline called on its own                                        *)
(***************************************************************************)
HandlersIdle == InitWith(FullEnv, {}, {TRUE})

InitCodec ==
  /\ HandlersIdle
  /\ polyline \in {[state |-> "called", encoded |-> e,
                     result |-> decodePolyline(<<>>)] : e \in EncodedStrings}
  /\ scoring = NoScoring
  /\ validation = NoValidation
  /\ orchestration = NoOrchestration

Decode ==
  /\ polyline.state = "called"
  /\ polyline' = [polyline EXCEPT !.state = "returned",
                                  !.result = decodePolyline(polyline.encoded)]
  /\ UNCHANGED <<handlerVars, scoring, validation, orchestration>>

NextCodec == Decode

SpecCodec == InitCodec /\ [][NextCodec]_vars

(***************************************************************************)
(* calculatePOIScore called on its own                                     *)
(***************************************************************************)
InitScore ==
  /\ HandlersIdle
  /\ polyline = NoPolyline
  /\ scoring \in [state : {"called"}, googleRating : ScoreRatings,
                   reviewCount : ScoreReviews, poiType : ScoreTypes,
                   distanceFromRoute : ScoreDistances, score : {0}]
  /\ validation = NoValidation
  /\ orchestration = NoOrchestration

Score ==
  /\ scoring.state = "called"
  /\ scoring' = [scoring EXCEPT !.state = "returned",
                   !.score = calculatePOIScore(scoring.googleRating,
                                scoring.reviewCount, scoring.poiType,
                                scoring.distanceFromRoute)]
  /\ UNCHANGED <<handlerVars, polyline, validation, orchestration>>

NextScore == Score

SpecScore == InitScore /\ [][NextScore]_vars

(***************************************************************************)
(* handleRouteGeneration                                                   *)
(***************************************************************************)
InitOrchestrate ==
  /\ HandlersIdle
  /\ polyline = NoPolyline
  /\ scoring = NoScoring
  /\ validation = NoValidation
  /\ orchestration \in {[NoOrchestration EXCEPT !.state = "called", !.request = q] :
                           q \in Requests}

OrchestrationReturn(resp) ==
  orchestration' = [orchestration EXCEPT !.state = "responded", !.response = resp]

\* req.json(), validateRouteRequest, checkCachedRoute (always null)
AcceptGeneration ==
  /\ orchestration.state = "called"
  /\ \E parses \in BOOLEAN :
       IF ~parses
       THEN OrchestrationReturn(APIResponse(500, "REQUEST_PROCESSING_ERROR", "", "",
                                            "Failed to process route generation request"))
       ELSE IF ~validateRouteRequest(orchestration.request)
       THEN orchestration' = [orchestration EXCEPT !.state = "responded", !.parsed = TRUE,
              !.response = APIResponse(400, "INVALID_REQUEST", "", "", "invalid")]
       ELSE orchestration' = [orchestration EXCEPT !.state = "forward", !.parsed = TRUE]
  /\ UNCHANGED <<handlerVars, polyline, scoring, validation>>

\* the fetch of generate-route and the answer built from its body; the
\* status_url is built from url.origin, and reading a name that is not in
\* scope throws a ReferenceError, which the catch answers
ForwardGeneration ==
  /\ orchestration.state = "forward"
  /\ \E answer \in DownstreamAnswers :
       orchestration' = [orchestration EXCEPT
         !.state = "responded", !.downstream = answer,
         !.response =
            IF answer.kind = "throw"
            THEN APIResponse(500, "REQUEST_PROCESSING_ERROR", "", "",
                             "Failed to process route generation request")
            ELSE IF ~answer.ok
            THEN APIResponse(500, "GENERATION_FAILED", "", "",
                             "Failed to start route generation process")
            ELSE IF "url" \notin NamesInHandleRouteGeneration
            THEN APIResponse(500, "REQUEST_PROCESSING_ERROR", "", "",
                             "Failed to process route generation request")
            ELSE APIResponse(IF answer.status = "completed" THEN 200 ELSE 202, "",
                             answer.route_id, answer.status,
                             "Route generation started successfully")]
  /\ UNCHANGED <<handlerVars, polyline, scoring, validation>>

NextOrchestrate ==
  \/ AcceptGeneration
  \/ ForwardGeneration

SpecOrchestrate == InitOrchestrate /\ [][NextOrchestrate]_vars

(***************************************************************************)
(* route-status: validateLocationOnRoute                                   *)
(***************************************************************************)
InitValidate ==
  /\ HandlersIdle
  /\ polyline = NoPolyline
  /\ scoring = NoScoring
  /\ orchestration = NoOrchestration
  /\ validation \in {[NoValidation EXCEPT !.state = "called", !.request = q] :
                        q \in ValidationRequests}

ValidationReturn(resp) ==
  validation' = [validation EXCEPT !.state = "responded", !.response = resp]

\* required fields and coordinate range
ValidateRequest ==
  /\ validation.state = "called"
  /\ IF ~validation.request.route_id \/ validation.request.current_location = "missing"
     THEN ValidationReturn(ValidationResponse(400, "MISSING_REQUIRED_FIELDS", FALSE, 0))
     ELSE IF validation.request.current_location = "invalid"
     THEN ValidationReturn(ValidationResponse(400, "INVALID_COORDINATES", FALSE, 0))
     ELSE validation' = [validation EXCEPT !.state = "select_route"]
  /\ UNCHANGED <<handlerVars, polyline, scoring, orchestration>>

\* from('routes').select('route_path').eq('id', route_id).single()
SelectRoutePath ==
  /\ validation.state = "select_route"
  /\ \E answer \in StoreAnswers :
       IF answer = "throw"
       THEN ValidationReturn(ValidationResponse(500, "INTERNAL_ERROR", FALSE, 0))
       ELSE IF answer = "error"
       THEN ValidationReturn(ValidationResponse(404, "ROUTE_NOT_FOUND", FALSE, 0))
       ELSE validation' = [validation EXCEPT !.state = "on_route"]
  /\ UNCHANGED <<handlerVars, polyline, scoring, orchestration>>

\* rpc('is_location_on_route', {..., max_distance_meters: 200})
CheckOnRoute ==
  /\ validation.state = "on_route"
  /\ \E answer \in StoreAnswers :
       IF answer = "throw"
       THEN ValidationReturn(ValidationResponse(500, "INTERNAL_ERROR", FALSE, 0))
       ELSE IF answer = "error"
       THEN ValidationReturn(ValidationResponse(500, "VALIDATION_ERROR", FALSE, 0))
       ELSE validation' = [validation EXCEPT !.state = "distance",
              !.validationResult =
                 is_location_on_route(validation.request.metres, OnRouteTolerance)]
  /\ UNCHANGED <<handlerVars, polyline, scoring, orchestration>>

\* rpc('calculate_distance_to_route', ...): distanceError is not looked at;
\* the 200 answer with distanceResult?.distance || 0
DistanceAndRespond ==
  /\ validation.state = "distance"
  /\ \E answer \in StoreAnswers :
       IF answer = "throw"
       THEN ValidationReturn(ValidationResponse(500, "INTERNAL_ERROR", FALSE, 0))
       ELSE ValidationReturn(ValidationResponse(200, "OK",
              validation.validationResult,
              IF answer = "data" THEN validation.request.metres ELSE 0))
  /\ UNCHANGED <<handlerVars, polyline, scoring, orchestration>>

NextValidate ==
  \/ ValidateRequest
  \/ SelectRoutePath
  \/ CheckOnRoute
  \/ DistanceAndRespond

SpecValidate == InitValidate /\ [][NextValidate]_vars

(***************************************************************************)
(* A busy road: one place search answers with eleven places, more than the *)
(* per-search cut of ten and more than the eight a route keeps.            *)
(***************************************************************************)
CrowdedPlaces == <<6, 7, 8, 9, 10, 11, 12, 13, 14, 15, 16>>

CrowdedEnv ==
  [requests |-> {[start_location |-> "coords", end_location |-> "address",
                  budget |-> NoBudget]},
   geocoder |-> {"found", "zero_results"}, store |-> {TRUE},
   directions |-> {d \in DirectionsResponses : d.points \in {0, 2}},
   places |-> {[kind |-> "ok", results |-> CrowdedPlaces],
               [kind |-> "ok", results |-> <<2, 1>>]},
   storyOutcomes |-> {"ok", "story_error"}]

InitCrowded == InitWith(CrowdedEnv, Started, {TRUE}) /\ UnitsIdle

SpecCrowded == InitCrowded /\ [][Next]_vars

(***************************************************************************)
(* Properties                                                              *)
(***************************************************************************)
Answered(r) == pc[r] = "done"

\* discoverPOIsNearRoute has returned (after a baseline route was found
\* the handler answers only at its end)
DiscoveryReturned(r) ==
  \/ pc[r] \in {"update70", "stories", "final"}
  \/ pc[r] = "done" /\ routeData[r].success

AllApplied(r) == \A k \in 1..Len(writes[r]) : writes[r][k].applied

ProgressWritten(r) == [k \in 1..Len(writes[r]) |-> writes[r][k].progress]

\* the budget in force: preferences.max_time_increase_percent, 20 if absent
EffectiveBudget(b) == IF b = NoBudget THEN 20 ELSE b

\* the places of one answer that the aggregator reads: none when the call
\* throws, else those among the first maxPOIsPerSearch results that come
\* before a result that cannot be read
Seen(resp) ==
  IF resp.kind = "throw" THEN {}
  ELSE LET res == Slice(resp.results, maxPOIsPerSearch) IN
       {res[k] : k \in {j \in 1..Len(res) :
                          \A h \in 1..j : Place(res[h]).has_geometry}}

\* the sample index at which a place was first read
FirstSeenIndex(log, id) ==
  LET at == {k \in 1..Len(log) : id \in Seen(log[k].resp)}
  IN log[CHOOSE k \in at : \A j \in at : k <= j].index

NoDuplicateIds(list) ==
  \A j, k \in 1..Len(list) :
     list[j].google_place_id = list[k].google_place_id => j = k

\* C1: the stored generation_progress of a route never decreases from one
\* write to the next, a failing request included.
C1_ProgressNeverDecreases ==
  [][\A r \in Req : routes[r].exists
        => routes'[r].progress >= routes[r].progress]_vars

\* C2: whenever the handler answers with a fatal error, the route record
\* exists and has status failed.
C2_FatalErrorsSetFailed ==
  \A r \in Req :
     (Answered(r) /\ response[r].code \in {"GEOCODING_FAILED", "DATABASE_ERROR",
                                          "ROUTE_GENERATION_FAILED", "INTERNAL_ERROR"})
        => (routes[r].exists /\ routes[r].status = "failed")

\* C3: once a route record is completed or failed, the pipeline sends no
\* further write for it and the record stays as it is.
C3_TerminalIsFinal ==
  [][\A r \in Req : routes[r].status \in Terminal
        => (routes'[r] = routes[r] /\ writes'[r] = writes[r])]_vars

C3_Witness ==
  \E r \in Req : Answered(r) /\ routes[r].status = "failed" /\ Len(writes[r]) = 2

\* C4: on a run where every stage and every write succeeds the progress
\* values written are 10, 40, 70, 100 in this order; 10 is written by the
\* insert only, 40 only once the baseline path is there, 70 only once POI
\* discovery has returned with every sample point searched, and 100 in the
\* write that sets status completed and in no other.
C4_CheckpointOrder ==
  \A r \in Req :
     /\ (Answered(r) /\ response[r].http = 200 /\ AllApplied(r))
           => ProgressWritten(r) = <<10, 40, 70, 100>>
     /\ \A k \in 1..Len(writes[r]) :
           LET w == writes[r][k] IN
           /\ w.progress = 10 <=> k = 1
           /\ w.progress = 40 => (routeData[r].success /\ baselineResp[r].routes > 0)
           /\ w.progress = 70 => (DiscoveryReturned(r) /\ pc[r] # "update70"
                                  /\ di[r] >= routeData[r].n)
           /\ w.progress = 100 <=> w.status = "completed"

C4_Witness ==
  \E r \in Req : /\ Answered(r) /\ response[r].http = 200 /\ AllApplied(r)
                 /\ Len(writes[r]) = 4 /\ routes[r].progress = 100

\* C5: every request whose route record was created ends with the record
\* completed or failed; stated on the handler's answer: when it has
\* answered, the record it created is in a terminal status.
C5_RecordEndsTerminal ==
  \A r \in Req : (Answered(r) /\ routes[r].exists) => routes[r].status \in Terminal

\* C6: for a non-negative budget B (20 if absent) and the baseline duration
\* T, a successful generation returns estimated_time_seconds <= T * (1 +
\* B / 100) and time_increase_percent <= B.
C6_BudgetRespected ==
  \A r \in Req :
     LET B == EffectiveBudget(requestData[r].budget)
         T == baselineResp[r].duration
     IN (response[r].http = 200 /\ B >= 0)
           => /\ response[r].estimated_time_seconds * 100 <= T * (100 + B)
              /\ response[r].time_increase_percent <= B

C6_Witness ==
  \E r \in Req : /\ response[r].http = 200 /\ requestData[r].budget = 0
                 /\ baselineResp[r].duration = 1080

\* the directions service's duration for the baseline with the given places
\* as waypoints
RECURSIVE DirectionsDuration(_, _)
DirectionsDuration(T, wps) ==
  IF wps = <<>> THEN T
  ELSE Place(Head(wps)).detour + DirectionsDuration(T, Tail(wps))

FitsBudget(T, B, wps) == DirectionsDuration(T, wps) * 100 <= T * (100 + B)

\* the greedy procedure: the POIs in descending score order, each added iff
\* the duration with it stays within the budget, until 8 stops are chosen
RECURSIVE GreedySelect(_, _, _, _)
GreedySelect(pois, chosen, T, B) ==
  IF pois = <<>> \/ Len(chosen) >= 8 THEN chosen
  ELSE LET with == Append(chosen, Head(pois).google_place_id) IN
       GreedySelect(Tail(pois), IF FitsBudget(T, B, with) THEN with ELSE chosen, T, B)

\* C7: the waypoints of the returned route are those of the greedy
\* procedure over the scored POIs; in particular the route has a waypoint
\* whenever some discovered POI fits within the budget.
C7_GreedyWaypoints ==
  \A r \in Req :
     LET B == EffectiveBudget(requestData[r].budget)
         T == baselineResp[r].duration
     IN response[r].http = 200
           => /\ response[r].waypoints = GreedySelect(poisData[r], <<>>, T, B)
              /\ (\E k \in 1..Len(poisData[r]) :
                     FitsBudget(T, B, <<poisData[r][k].google_place_id>>))
                   => Len(response[r].waypoints) >= 1

\* discoverPOIsNearRoute is running or has just returned: the states in
\* which its lists are built (no later step of the handler changes them)
Discovering(r) == pc[r] \in {"discover", "update70"}

SampleIndices(n) ==
  [k \in 1..((n + searchInterval(n) - 1) \div searchInterval(n))
      |-> (k - 1) * searchInterval(n)]

\* C9: whichever samples fail, every place read from any sample stays in
\* the discovered list while discovery runs; when discovery returns, every
\* sample point has been searched, and the returned list is the ranked
\* discovered list, which holds every place read unless the cap of 8 cut
\* it.
C9_SampleFailuresSkipped ==
  \A r \in Req :
     Discovering(r)
        => /\ \A k \in 1..Len(searches[r]) :
                 \A id \in Seen(searches[r][k].resp) : HasPlace(discovered[r], id)
           /\ pc[r] = "update70"
                 => /\ [k \in 1..Len(searches[r]) |-> searches[r][k].index]
                          = SampleIndices(routeData[r].n)
                    /\ poisData[r] = TopPOIs(discovered[r])
                    /\ \A k \in 1..Len(searches[r]) :
                          \A id \in Seen(searches[r][k].resp) :
                             \/ HasPlace(poisData[r], id)
                             \/ Len(poisData[r]) = MaxPOIsPerRoute

C9_Witness ==
  \E r \in Req :
     /\ DiscoveryReturned(r)
     /\ \E j, k, l \in 1..Len(searches[r]) :
           /\ j < k /\ k < l
           /\ Seen(searches[r][j].resp) # {}
           /\ searches[r][k].resp.kind = "throw"
           /\ Seen(searches[r][l].resp) \ Seen(searches[r][j].resp) # {}
           /\ \A id \in Seen(searches[r][j].resp) \cup Seen(searches[r][l].resp) :
                 HasPlace(poisData[r], id)

\* every sample point was searched and none of the searches had a result
NoResultsAnywhere(r) ==
  /\ DiscoveryReturned(r)
  /\ \A k \in 1..Len(searches[r]) :
        searches[r][k].resp.kind = "ok" /\ searches[r][k].resp.results = <<>>

C11_AtMostEightStops ==
  \A r \in Req :
    (Answered(r) /\ response[r].http = 200) =>
       /\ Len(response[r].waypoints) <= 8
       /\ Len(response[r].stories) <= 8
       /\ response[r].total_stories = Len(response[r].stories)

\* more than eight distinct places were found, and eight stories are returned
C11_Witness ==
  \E r \in Req : /\ Answered(r) /\ response[r].http = 200
                 /\ Len(discovered[r]) > 8
                 /\ Len(response[r].stories) = 8
                 /\ response[r].total_stories = 8

\* a POST whose body was parsed (requestData holds the body)
Parsed(r) ==
  /\ pc[r] \notin {"idle", "start"}
  /\ response[r].code \notin {"METHOD_NOT_ALLOWED", "INTERNAL_ERROR"}

\* a location that is missing or whose coordinates are out of range
InvalidLocation(loc) == loc \in {"missing", "badcoords", "badcoords_address"}

\* C12: a request with a missing location or with coordinates out of range
\* is answered with 400 and no request is sent to an external service for
\* it, whatever the other location is and whether or not an address comes
\* with the bad coordinates
C12_InvalidInputRejectedUpfront ==
  \A r \in Req :
    (/\ Parsed(r)
     /\ \/ InvalidLocation(requestData[r].start_location)
        \/ InvalidLocation(requestData[r].end_location))
    => /\ ~geocoderCalls[r]
       /\ Answered(r) => response[r].http = 400

(***************************************************************************)
(* The polyline format: a delta is written as 5-bit chunks, least          *)
(* significant first, every chunk but the last with the bit 0x20 set, each *)
(* chunk as the character of code chunk + 63; the chunks together are the  *)
(* zig-zag form of the delta (sign in bit 0).                              *)
(***************************************************************************)
\* the ends of the deltas of a string: the indices of the characters
\* without continuation bit
DeltaEnds(encoded) == {k \in 1..Len(encoded) : encoded[k] - 63 < 32}

\* the string stops inside a delta, or after a latitude delta
EndsMidDelta(encoded) ==
  /\ encoded # <<>>
  /\ \/ Len(encoded) \notin DeltaEnds(encoded)
     \/ Cardinality(DeltaEnds(encoded)) % 2 # 0

WellFormed(encoded) ==
  /\ \A k \in 1..Len(encoded) : encoded[k] - 63 \in 0..63
  /\ ~EndsMidDelta(encoded)

\* the j-th delta of the string: the characters after the end of delta
\* j - 1 up to the j-th end
DeltaChars(encoded, j) ==
  LET EndOf(i) == IF i = 0 THEN 0
                  ELSE CHOOSE k \in DeltaEnds(encoded) :
                         Cardinality({h \in DeltaEnds(encoded) : h <= k}) = i
  IN SubSeq(encoded, EndOf(j - 1) + 1, EndOf(j))

RECURSIVE ChunksValue(_)
ChunksValue(chars) ==
  IF chars = <<>> THEN 0
  ELSE ((Head(chars) - 63) % 32) + 32 * ChunksValue(Tail(chars))

\* zig-zag: even values are 2d for d >= 0, odd values are -2d - 1 for d < 0
DeltaValue(chars) ==
  LET v == ChunksValue(chars) IN
  IF v % 2 = 0 THEN v \div 2 ELSE 0 - ((v + 1) \div 2)

RECURSIVE SumOfDeltas(_, _, _)
\* the sum of the deltas first, first + 2, ..., up to last
SumOfDeltas(encoded, first, last) ==
  IF first > last THEN 0
  ELSE DeltaValue(DeltaChars(encoded, first)) + SumOfDeltas(encoded, first + 2, last)

\* C13: on a string that ends in the middle of a delta decodePolyline
\* reports a DecodeError; it does not return a coordinate list
C13_TruncatedInputRejected ==
  (polyline.state = "returned" /\ EndsMidDelta(polyline.encoded))
    => polyline.result.kind = "DecodeError"

\* C14: on a well-formed encoding of k pairs of deltas decodePolyline
\* returns k coordinates, the i-th being the sums of the first i latitude
\* deltas and of the first i longitude deltas, latitude first
C14_DecodesPrefixSums ==
  (polyline.state = "returned" /\ WellFormed(polyline.encoded)) =>
     LET k == Cardinality(DeltaEnds(polyline.encoded)) \div 2
         coordinates == polyline.result.coordinates
     IN /\ polyline.result.kind = "coordinates"
        /\ Len(coordinates) = k
        /\ \A i \in 1..k :
              coordinates[i] = <<SumOfDeltas(polyline.encoded, 1, 2 * i - 1),
                                 SumOfDeltas(polyline.encoded, 2, 2 * i)>>

\* two pairs were decoded, with a delta of two characters and a negative one
C14_Witness ==
  /\ polyline.state = "returned"
  /\ WellFormed(polyline.encoded)
  /\ Len(polyline.encoded) = 5
  /\ Len(polyline.result.coordinates) = 2
  /\ \E j \in 1..4 : DeltaValue(DeltaChars(polyline.encoded, j)) < 0
  /\ polyline.result.coordinates[2][1] # polyline.result.coordinates[1][1]

\* the empty string decodes to the empty list
C14_WitnessEmpty ==
  /\ polyline.state = "returned"
  /\ polyline.encoded = <<>>
  /\ polyline.result.coordinates = <<>>

\* C15: the codec has an encoding operation that inverts decoding: a
\* coordinate list that decodePolyline returned for a well-formed string can
\* be handed to it, and what it returns decodes to the list again
C15_EncodeInvertsDecode ==
  (polyline.state = "returned" /\ WellFormed(polyline.encoded)) =>
     /\ "encodePolyline" \in PolylineFunctions
     /\ \E e \in EncodedStrings :
           decodePolyline(e).coordinates = polyline.result.coordinates

\* C16: for a rating in [0, 5], a review count >= 0, any category and a
\* distance >= 0, calculatePOIScore returns an integer in [0, 100] that is
\* greater than 0, also when rating and review count are both 0
C16_ScoreInRange ==
  scoring.state = "returned" => (scoring.score \in 0..100 /\ scoring.score > 0)

\* no rating, no reviews, a category without weight, the farthest bucket
C16_Witness ==
  /\ scoring.state = "returned"
  /\ scoring.googleRating = 0 /\ scoring.reviewCount = 0
  /\ scoring.poiType = "unknown" /\ scoring.distanceFromRoute > 2000
  /\ scoring.score > 0

\* C17: with the other arguments fixed, a higher rating never gives a lower
\* score, a higher review count never gives a lower score, and a greater
\* distance never gives a higher score
C17_ScoreMonotone ==
  scoring.state = "returned" =>
    /\ \A g \in ScoreRatings :
          g >= scoring.googleRating =>
            calculatePOIScore(g, scoring.reviewCount, scoring.poiType,
                              scoring.distanceFromRoute) >= scoring.score
    /\ \A c \in ScoreReviews :
          c >= scoring.reviewCount =>
            calculatePOIScore(scoring.googleRating, c, scoring.poiType,
                              scoring.distanceFromRoute) >= scoring.score
    /\ \A d \in ScoreDistances :
          d >= scoring.distanceFromRoute =>
            calculatePOIScore(scoring.googleRating, scoring.reviewCount,
                              scoring.poiType, d) <= scoring.score

\* a call whose score is lower than that of a higher rating and of a higher
\* review count, and higher than that of a farther bucket
C17_Witness ==
  /\ scoring.state = "returned"
  /\ scoring.googleRating = 25 /\ scoring.reviewCount = 10
  /\ scoring.distanceFromRoute = 500
  /\ calculatePOIScore(50, 10, scoring.poiType, 500) > scoring.score
  /\ calculatePOIScore(25, 1000, scoring.poiType, 500) > scoring.score
  /\ calculatePOIScore(25, 10, scoring.poiType, 1000) < scoring.score
  /\ calculatePOIScore(25, 10, scoring.poiType, 2000) <
        calculatePOIScore(25, 10, scoring.poiType, 1000)
  /\ calculatePOIScore(25, 10, scoring.poiType, 2001) <
        calculatePOIScore(25, 10, scoring.poiType, 2000)

\* C18: in every 200 answer of validate-location, on_route is true exactly
\* when distance_from_route_meters is at most 200, whatever the store's
\* on-route and distance computations answer
C18_OnRouteMatchesDistance ==
  (validation.state = "responded" /\ validation.response.http = 200) =>
     (validation.response.on_route <=>
        validation.response.distance_from_route_meters <= 200)

\* the row that the writes of one handler alone leave behind
RECURSIVE ReplayWrites(_, _)
ReplayWrites(row, log) ==
  IF log = <<>> THEN row
  ELSE LET w == Head(log)
           next == IF ~w.applied THEN row
                   ELSE IF w.status = "processing"
                        THEN [exists |-> TRUE, status |-> "processing",
                              progress |-> w.progress]
                   ELSE IF ~row.exists THEN row
                   ELSE [exists |-> TRUE,
                         status |-> IF w.status = "-" THEN row.status ELSE w.status,
                         progress |-> w.progress]
       IN ReplayWrites(next, Tail(log))

\* the POIs that the place-search answers given to one handler alone lead to
RECURSIVE RediscoverFrom(_, _)
RediscoverFrom(list, log) ==
  IF log = <<>> THEN list
  ELSE RediscoverFrom(ProcessSample(list, Head(log).resp, Head(log).index), Tail(log))

\* C19: with requests served concurrently, in every interleaving, the route
\* record of a request is written by its own handler only, and its status,
\* progress and stories are those its own external answers lead to when it
\* runs alone
C19_RequestsIsolated ==
  /\ [][\A r \in Req : routes'[r] # routes[r] => pc'[r] # pc[r]]_vars
  /\ [](\A r \in Req :
          /\ routes[r] = ReplayWrites(NoRoute, writes[r])
          /\ DiscoveryReturned(r) =>
                poisData[r] = TopPOIs(RediscoverFrom(<<>>, searches[r]))
          /\ (Answered(r) /\ response[r].http = 200) =>
                /\ response[r].stories = stories[r]
                /\ \A k \in 1..Len(stories[r]) :
                      \E h \in 1..Len(poisData[r]) : stories[r][k] = MakeStory(poisData[r][h])
                /\ {row.place_id : row \in {x \in storyRows : x.route_id = r}}
                     = {stories[r][k].place_id : k \in 1..Len(stories[r])})

\* the first request has completed with two stories while the second is
\* between two of its writes, its row at progress 40
C19_Witness ==
  /\ Answered("r1") /\ response["r1"].http = 200
  /\ Len(response["r1"].stories) = 2
  /\ routes["r1"].status = "completed"
  /\ pc["r2"] = "update70"
  /\ routes["r2"].status = "processing" /\ routes["r2"].progress = 40

\* the directions service answered, and its answer holds no route
NoRouteAnswer(resp) == resp.kind = "ok" /\ resp.status = "OK" /\ resp.routes = 0

\* the directions service failed: no answer, or an upstream error status
DirectionsFailure(resp) ==
  resp.kind = "throw" \/ (resp.kind = "ok" /\ resp.status # "OK")

\* C20: a directions answer without a route and a failure of the directions
\* service end in two failures that the error tells apart, and only the
\* first is reported as no viable route (with the advice to relax the
\* constraints)
C20_NoRouteToldFromFailure ==
  \A r \in Req :
    (Answered(r) /\ response[r].code = "ROUTE_GENERATION_FAILED") =>
       /\ NoRouteAnswer(baselineResp[r]) <=>
             response[r].message = "No baseline route found"
       /\ DirectionsFailure(baselineResp[r]) =>
             response[r].reason # "No viable route found with specified parameters"

\* C21: for a valid request whose downstream generate-route call answers OK,
\* the orchestration endpoint answers 200 when the downstream status is
\* completed and 202 otherwise, with the downstream route_id, a status and
\* a message; it answers 500 only when the downstream call is not OK or the
\* request cannot be processed
C21_OrchestrationStatus ==
  orchestration.state = "responded" =>
    /\ (orchestration.downstream.kind = "response" /\ orchestration.downstream.ok) =>
          /\ orchestration.response.http =
                (IF orchestration.downstream.status = "completed" THEN 200 ELSE 202)
          /\ orchestration.response.route_id = orchestration.downstream.route_id
          /\ orchestration.response.status = orchestration.downstream.status
          /\ orchestration.response.message # ""
    /\ orchestration.response.http = 500 =>
          \/ ~orchestration.parsed
          \/ orchestration.downstream.kind = "throw"
          \/ (orchestration.downstream.kind = "response" /\ ~orchestration.downstream.ok)

\* C22: whenever the status endpoint reports status completed for a route,
\* it reports generation_progress 100, route_calculated and pois_discovered;
\* and it reports route_calculated only for a route whose baseline
\* directions call succeeded
C22_CompletedReportIsWhole ==
  \A r \in Req :
    getRouteStatus(r).http = 200 =>
      /\ getRouteStatus(r).status = "completed" =>
            /\ getRouteStatus(r).generation_progress = 100
            /\ getRouteStatus(r).route_calculated
            /\ getRouteStatus(r).pois_discovered
      /\ getRouteStatus(r).route_calculated =>
            (baselineResp[r].kind = "ok" /\ baselineResp[r].status = "OK"
             /\ baselineResp[r].routes > 0)

\* a completed route with stories is reported, after a write that was lost
C22_Witness ==
  \E r \in Req :
    /\ getRouteStatus(r).http = 200
    /\ getRouteStatus(r).status = "completed"
    /\ getRouteStatus(r).route_calculated
    /\ getRouteStatus(r).stories_generated > 0
    /\ ~AllApplied(r)

\* the story that generateStoriesForPOIs builds for a POI of the given score
StoryForScore(score) ==
  MakeStory([google_place_id |-> 1, poi_type |-> scoring.poiType,
             popularity_score |-> score, route_coordinate_index |-> 0])

\* C23: the priority of a story is min(10, max(1, floor(score / 10))), an
\* integer in [1, 10] for the score of every POI and for every score from 0
\* to 100, so the store's check on stories.priority accepts every insert
C23_PriorityInRange ==
  scoring.state = "returned" =>
    /\ PriorityCheck(StoryForScore(scoring.score).priority)
    /\ StoryForScore(scoring.score).priority \in 1..10
    /\ \A score \in 0..100 :
          /\ PriorityCheck(StoryForScore(score).priority)
          /\ StoryForScore(score).priority =
                (IF score < 10 THEN 1 ELSE score \div 10)

\* the best POI of the model was scored: its story has priority 8
C23_Witness ==
  /\ scoring.state = "returned"
  /\ scoring.score = 88
  /\ StoryForScore(scoring.score).priority = 8

\* the deduplicated candidates of all answers, every result of every answer
\* read (no cut per search)
RECURSIVE AllCandidates(_, _)
AllCandidates(list, log) ==
  IF log = <<>> THEN list
  ELSE AllCandidates(
         IF Head(log).resp.kind = "throw" THEN list
         ELSE ProcessResults(list, Head(log).resp.results, Head(log).index),
         Tail(log))

\* C24: the list that discovery returns is the min(8, n) highest-scoring of
\* all n deduplicated candidates that the place searches returned, in
\* non-increasing score order: no candidate is dropped before it was scored
C24_CapAfterScoringAll ==
  \A r \in Req :
    DiscoveryReturned(r) =>
      LET all == AllCandidates(<<>>, searches[r])
          kept == {poisData[r][k].google_place_id : k \in 1..Len(poisData[r])}
      IN /\ Len(poisData[r]) = Min(8, Len(all))
         /\ \A k \in 1..(Len(poisData[r]) - 1) :
               poisData[r][k].popularity_score >= poisData[r][k + 1].popularity_score
         /\ \A j \in 1..Len(all) :
               all[j].google_place_id \notin kept =>
                 \A k \in 1..Len(poisData[r]) :
                   poisData[r][k].popularity_score >= all[j].popularity_score

\* C25: for a baseline path of at least 5 coordinates discovery issues
\* exactly 5 place queries whatever the length of the path, at indices
\* evenly spaced over the path
C25_FiveQueries ==
  \A r \in Req :
    (DiscoveryReturned(r) /\ routeData[r].n >= 5) =>
       /\ Len(searches[r]) = 5
       /\ \A k \in 1..Len(searches[r]) :
             searches[r][k].index = (k - 1) * (routeData[r].n \div 5)

\* C26: the score of a discovered POI takes in the POI's own distance to
\* the path: of two POIs with the same rating, review count and category
\* that lie in different distance buckets, the farther one scores lower
C26_ScoreUsesDistance ==
  \A r \in Req :
    DiscoveryReturned(r) =>
      \A j, k \in 1..Len(poisData[r]) :
        LET near == poisData[r][j]
            far == poisData[r][k]
        IN (/\ near.google_rating = far.google_rating
            /\ near.review_count = far.review_count
            /\ near.poi_type = far.poi_type
            /\ DistanceScore(Place(near.google_place_id).distance) >
                 DistanceScore(Place(far.google_place_id).distance))
           => near.popularity_score > far.popularity_score

\* the position at which a place was pushed on discoveredPOIs
DiscoveryPosition(r, id) ==
  CHOOSE h \in 1..Len(discovered[r]) : discovered[r][h].google_place_id = id

\* C27: in the ranked list, POIs of equal score are ordered by distance to
\* the path, the closer one first, and POIs equal in score and distance
\* keep their discovery order
C27_TiesByProximity ==
  \A r \in Req :
    DiscoveryReturned(r) =>
      \A j, k \in 1..Len(poisData[r]) :
        (j < k /\ poisData[r][j].popularity_score = poisData[r][k].popularity_score)
        => LET first == poisData[r][j].google_place_id
               second == poisData[r][k].google_place_id
           IN /\ Place(first).distance <= Place(second).distance
              /\ Place(first).distance = Place(second).distance =>
                    DiscoveryPosition(r, first) < DiscoveryPosition(r, second)

\* C28: when the handler answers 200 with status completed for a route_id,
\* the stored record of that id has status completed and
\* generation_progress 100; the answer never claims completion while the
\* record says processing
C28_AnswerMatchesRecord ==
  \A r \in Req :
    (Answered(r) /\ response[r].http = 200 /\ response[r].status = "completed") =>
       /\ routes[r].exists
       /\ routes[r].status = "completed"
       /\ routes[r].progress = ProgressCompleted

\* C29: a story row exists for a route only if the route's record has
\* generation_progress >= 70 and status processing or completed: the status
\* endpoint never reports stories_generated > 0 with pois_discovered false,
\* and a failed route has no stories
C29_StoriesOnlyAfterDiscovery ==
  \A r \in Req :
    (\E row \in storyRows : row.route_id = r) =>
       /\ routes[r].exists
       /\ routes[r].progress >= ProgressDiscovered
       /\ routes[r].status \in {"processing", "completed"}
       /\ getRouteStatus(r).stories_generated > 0 => getRouteStatus(r).pois_discovered

\* a score in hundredths of a point, rounded to an integer number of points
RoundedToInteger(hundredths) == (hundredths + 50) \div 100

\* C30: the database routine calculate_poi_score, called with its default
\* uniqueness, returns after rounding to an integer the score that
\* calculatePOIScore returns for the same arguments, and its result lies in
\* (0, 100] for every uniqueness value from 0 to 10
C30_ScorersAgree ==
  scoring.state = "returned" =>
    /\ RoundedToInteger(calculate_poi_score(scoring.googleRating, scoring.reviewCount,
            scoring.poiType, scoring.distanceFromRoute, DefaultUniqueness))
         = scoring.score
    /\ \A u \in 0..10 :
          LET db == calculate_poi_score(scoring.googleRating, scoring.reviewCount,
                       scoring.poiType, scoring.distanceFromRoute, u)
          IN db > 0 /\ db <= 10000
====
